---- MODULE Spec2Model ----
(***************************************************************************)
(* Model of src/app/loadout-builder/mod-utils.ts: doEnergiesMatch,         *)
(* someModHasEnergyRequirement, stringifyMods and getModAssignments (the   *)
(* mod partitioner, the per-item energy seed and the nested                *)
(* combat / general / raid permutation search).                           *)
(*                                                                         *)
(* A mod is a record                                                       *)
(*   [plugCategoryHash, hasCost, energyType, energyCost]                   *)
(* where hasCost = FALSE stands for a missing plug.energyCost (the other   *)
(* two fields are then "undefined" and 0).  An item is a record            *)
(*   [id, bucket, hasEnergy, energyType, maxEnergy, canSwap,               *)
(*    compatibleModTags]                                                   *)
(* where maxEnergy, canSwap and compatibleModTags are the answers of the   *)
(* imported collaborators upgradeSpendTierToMaxEnergy,                     *)
(* canSwapEnergyFromUpgradeSpendTier and getSpecialtySocketMetadatas for   *)
(* that item, which are inputs of the functions modelled here.             *)
(***************************************************************************)
EXTENDS Integers, Sequences, FiniteSets

VARIABLES
    items,                 \* argument items of getModAssignments
    mods,                  \* argument mods of getModAssignments
    pc,                    \* position in getModAssignments
    m,                     \* index of the mod the partition loop is at
    assignments,           \* item id -> sequence of mods
    generalMods,
    combatMods,
    raidMods,
    itemEnergies,          \* item id -> [used, capacity, type]
    generalModPermutations,
    combatModPermutations,
    raidModPermutations,
    ci, gi, ri,            \* index of combatP / generalP / raidP in its list
    i,                     \* item index of the running item loop (1-based)
    candidates,            \* history: <<ci, gi, ri>> that reached line 224
    last,                  \* history: what the previous step did
    ret                    \* result of the last call of an exported predicate

vars == <<items, mods, pc, m, assignments, generalMods, combatMods, raidMods,
          itemEnergies, generalModPermutations, combatModPermutations,
          raidModPermutations, ci, gi, ri, i, candidates, last, ret>>

----------------------------------------------------------------------------
(* Bounds and data *)

\* longest mods argument drawn by Init
MaxMods == 3

\* generatePermutationsOfFive: every permutation has five positions
PermLen == 5

\* DestinyEnergyType.Any
Any == "Any"

\* a null entry of a permutation
NoMod == [plugCategoryHash |-> "null", hasCost |-> FALSE,
          energyType |-> "undefined", energyCost |-> 0]

Mod(pch, type, cost) ==
    [plugCategoryHash |-> pch, hasCost |-> TRUE, energyType |-> type, energyCost |-> cost]

FreeMod(pch) ==
    [plugCategoryHash |-> pch, hasCost |-> FALSE, energyType |-> "undefined", energyCost |-> 0]

Item(id, bucket, hasEnergy, type, maxEnergy, canSwap, tags) ==
    [id |-> id, bucket |-> bucket, hasEnergy |-> hasEnergy, energyType |-> type,
     maxEnergy |-> maxEnergy, canSwap |-> canSwap, compatibleModTags |-> tags]

\* armor2PlugCategoryHashesByName.general
GeneralPlugCategoryHash == "general"

\* combatCompatiblePlugCategoryHashes
combatCompatiblePlugCategoryHashes == {"ember", "dual"}

\* raidModPlugCategoryHashes ("dual" is listed in both tables)
raidModPlugCategoryHashes == {"raid", "dual"}

\* bucketsToCategories[bucket]
bucketsToCategories(bucket) ==
    CASE bucket = "Helmet"    -> "helmet"
      [] bucket = "Gauntlets" -> "gauntlets"
      [] bucket = "Chest"     -> "chest"
      [] bucket = "Legs"      -> "legs"
      [] bucket = "ClassItem" -> "classitem"
      [] OTHER                -> "nocategory"

NoTag == "notag"

\* getModTypeTagByPlugCategoryHash(plugCategoryHash), NoTag for undefined
getModTypeTagByPlugCategoryHash(pch) ==
    CASE pch = "ember" -> "combatstyle"
      [] pch = "dual"  -> "combatstyle"
      [] pch = "raid"  -> "gardenofsalvation"
      [] OTHER         -> NoTag

----------------------------------------------------------------------------
(* Sequence helpers *)

Range(s) == {s[k] : k \in DOMAIN s}

SeqsUpTo(S, n) == UNION {[1..k -> S] : k \in 0..n}

RECURSIVE SumCost(_)
\* _.sumBy(list, (mod) => mod.plug.energyCost?.energyCost || 0)
SumCost(list) ==
    IF list = <<>> THEN 0
    ELSE (IF Head(list).hasCost THEN Head(list).energyCost ELSE 0) + SumCost(Tail(list))

----------------------------------------------------------------------------
(* Exported predicates *)

\* doEnergiesMatch(defs, mod, item, upgradeSpendTier), as a truth value
doEnergiesMatch(mod, item) ==
    /\ item.hasEnergy
    /\ \/ ~mod.hasCost
       \/ mod.energyType = Any
       \/ mod.energyType = item.energyType
       \/ item.canSwap

\* someModHasEnergyRequirement(mods)
someModHasEnergyRequirement(list) ==
    \E k \in DOMAIN list : ~list[k].hasCost \/ list[k].energyType # Any

----------------------------------------------------------------------------
(* Permutations *)

\* stringifyMods(permutation): one entry per position, empty for null, else
\* (energyType, energyCost, plugCategoryHash); a missing cost, printed as
\* "undefined" twice by the source, is the type "undefined" with hasCost FALSE
stringifyMods(permutation) ==
    [k \in DOMAIN permutation |->
        IF permutation[k] = NoMod THEN <<>>
        ELSE <<permutation[k].energyType,
               IF permutation[k].hasCost THEN permutation[k].energyCost ELSE 0,
               permutation[k].hasCost,
               permutation[k].plugCategoryHash>>]

RECURSIVE Arrangements(_, _, _), ArrangementsFrom(_, _, _, _)
\* the ways to fill positions pos..PermLen with 0 (null) or an index of 1..n
\* not in taken, in lexicographic order
Arrangements(pos, taken, n) ==
    IF pos > PermLen THEN << <<>> >> ELSE ArrangementsFrom(pos, taken, n, 0)

ArrangementsFrom(pos, taken, n, c) ==
    IF c > n THEN <<>>
    ELSE LET sub == IF c # 0 /\ c \in taken THEN <<>>
                    ELSE Arrangements(pos + 1, taken \cup ({c} \ {0}), n)
         IN  [j \in 1..Len(sub) |-> <<c>> \o sub[j]] \o ArrangementsFrom(pos, taken, n, c + 1)

\* the permutations of list whose key is not the key of an earlier one, in
\* the order of list
Distinct(list) ==
    LET key == [j \in DOMAIN list |-> stringifyMods(list[j])]
        keep == {j \in DOMAIN list : \A h \in 1..(j - 1) : key[h] # key[j]}
        nth(n) == CHOOSE j \in keep : Cardinality({h \in keep : h < j}) = n - 1
    IN  [n \in 1..Cardinality(keep) |-> list[nth(n)]]

\* generatePermutationsOfFive(list, stringifyMods): every distinct placement
\* of 0..min(5, |list|) of the mods over five positions, null elsewhere
generatePermutationsOfFive(list) ==
    LET arr == Arrangements(1, {}, Len(list))
        asMods(a) == [k \in 1..PermLen |-> IF a[k] = 0 THEN NoMod ELSE list[a[k]]]
    IN  Distinct([j \in 1..Len(arr) |-> asMods(arr[j])])

\* permutation[i] of the source: undefined (falsy) past the fifth position
PermAt(permutation, k) == IF k \in DOMAIN permutation THEN permutation[k] ELSE NoMod

----------------------------------------------------------------------------
(* Partitioning, lines 73-90 *)

\* a variant of Classify that tests the raid table before the combat table
ClassifyRaidFirst(mod) ==
    IF mod.plugCategoryHash = GeneralPlugCategoryHash THEN "general"
    ELSE IF mod.plugCategoryHash \in raidModPlugCategoryHashes THEN "raid"
    ELSE IF mod.plugCategoryHash \in combatCompatiblePlugCategoryHashes THEN "combat"
    ELSE "item"

\* lines 78-84: the branch of the if / else-if chain a mod takes
Classify(mod) ==
    IF mod.plugCategoryHash = GeneralPlugCategoryHash THEN "general"
    ELSE IF mod.plugCategoryHash \in combatCompatiblePlugCategoryHashes THEN "combat"
    ELSE IF mod.plugCategoryHash \in raidModPlugCategoryHashes THEN "raid"
    ELSE "item"

\* items.find(...): index of the first item whose bucket category is the
\* mod's plugCategoryHash, 0 for undefined
itemForMod(its, mod) ==
    LET hits == {k \in DOMAIN its : mod.plugCategoryHash = bucketsToCategories(its[k].bucket)}
    IN  IF hits = {} THEN 0 ELSE CHOOSE k \in hits : \A h \in hits : k <= h

\* itemForMod && assignments.get(itemForMod.id)?.push(mod)
PushAssignment(asg, its, mod) ==
    LET k == itemForMod(its, mod)
    IN  IF k # 0 /\ its[k].id \in DOMAIN asg
        THEN [asg EXCEPT ![its[k].id] = Append(@, mod)]
        ELSE asg

----------------------------------------------------------------------------
(* Energy seed, lines 92-102 *)

ItemIds(its) == {its[k].id : k \in DOMAIN its}

\* _.keyBy(items, (item) => item.id)[id]: of several items with one id the
\* last one stays under the key
ItemById(its, id) ==
    its[CHOOSE k \in DOMAIN its :
            /\ its[k].id = id
            /\ \A h \in DOMAIN its : its[h].id = id => h <= k]

\* lines 68-71: item id -> the mod tags the sockets of the item kept under
\* that id accept
itemSocketMetadata ==
    [id \in ItemIds(items) |-> ItemById(items, id).compatibleModTags]

\* lines 92-102
SeedItemEnergies(its, asg) ==
    [id \in ItemIds(its) |->
        LET item == ItemById(its, id)
        IN  [used     |-> SumCost(asg[id]),
             capacity |-> item.maxEnergy,
             type     |-> IF ~item.hasEnergy \/ item.canSwap THEN Any ELSE item.energyType]]

----------------------------------------------------------------------------
(* Per-item checks of the three loops *)

\* mod.plug.energyCost?.energyCost || 0
CostOf(mod) == IF mod.hasCost THEN mod.energyCost ELSE 0

\* mod.plug.energyCost?.energyType || DestinyEnergyType.Any
TypeOf(mod) == IF mod.hasCost THEN mod.energyType ELSE Any

\* itemSocketMetadata[item.id]?.some((metadata) =>
\*   metadata.compatibleModTags.includes(modTag)), with modTag truthy
SocketAccepts(item, mod) ==
    LET modTag == getModTypeTagByPlugCategoryHash(mod.plugCategoryHash)
    IN  /\ modTag # NoTag
        /\ item.id \in DOMAIN itemSocketMetadata
        /\ modTag \in itemSocketMetadata[item.id]

\* lines 123-128
combatEnergyIsValid(energies, item, combatMod) ==
    /\ item.id \in DOMAIN energies
    /\ energies[item.id].used + CostOf(combatMod) <= energies[item.id].capacity
    /\ \/ energies[item.id].type = TypeOf(combatMod)
       \/ TypeOf(combatMod) = Any
       \/ energies[item.id].type = Any

\* the negation of the condition of lines 131-139
CombatModFits(energies, item, combatMod) ==
    combatEnergyIsValid(energies, item, combatMod) /\ SocketAccepts(item, combatMod)

\* lines 160-168
generalEnergyIsValid(energies, item, generalMod, combatMod) ==
    /\ item.id \in DOMAIN energies
    /\ energies[item.id].used + CostOf(generalMod) + CostOf(combatMod)
          <= energies[item.id].capacity
    /\ \/ energies[item.id].type = TypeOf(generalMod)
       \/ TypeOf(generalMod) = Any
       \/ energies[item.id].type = Any
    /\ \/ TypeOf(generalMod) = TypeOf(combatMod)
       \/ TypeOf(generalMod) = Any
       \/ TypeOf(combatMod) = Any

\* lines 196-208
raidEnergyIsValid(energies, item, raidMod, generalMod, combatMod) ==
    /\ item.id \in DOMAIN energies
    /\ energies[item.id].used + CostOf(generalMod) + CostOf(combatMod) + CostOf(raidMod)
          <= energies[item.id].capacity
    /\ \/ energies[item.id].type = TypeOf(raidMod)
       \/ TypeOf(raidMod) = Any
       \/ energies[item.id].type = Any
    /\ \/ TypeOf(raidMod) = TypeOf(generalMod)
       \/ TypeOf(raidMod) = Any
       \/ TypeOf(generalMod) = Any
    /\ \/ TypeOf(raidMod) = TypeOf(combatMod)
       \/ TypeOf(raidMod) = Any
       \/ TypeOf(combatMod) = Any

\* the negation of the condition of lines 211-219
RaidModFits(energies, item, raidMod, generalMod, combatMod) ==
    /\ raidEnergyIsValid(energies, item, raidMod, generalMod, combatMod)
    /\ SocketAccepts(item, raidMod)

----------------------------------------------------------------------------
(* Position of the nested loops *)

combatP  == combatModPermutations[ci]
generalP == generalModPermutations[gi]
raidP    == raidModPermutations[ri]

Goto(to) ==
    /\ pc' = to.pc
    /\ ci' = to.ci
    /\ gi' = to.gi
    /\ ri' = to.ri
    /\ i'  = to.i

\* continue combatModLoop, or the end of the loop and the return of line 229
ContinueCombatModLoop ==
    IF ci < Len(combatModPermutations)
    THEN [pc |-> "combat", ci |-> ci + 1, gi |-> 0, ri |-> 0, i |-> 1]
    ELSE [pc |-> "done", ci |-> ci, gi |-> 0, ri |-> 0, i |-> 0]

\* continue generalModLoop; its end is the end of combatModLoop's body
ContinueGeneralModLoop ==
    IF gi < Len(generalModPermutations)
    THEN [pc |-> "general", ci |-> ci, gi |-> gi + 1, ri |-> 0, i |-> 1]
    ELSE ContinueCombatModLoop

\* continue raidModLoop; its end is the end of generalModLoop's body
ContinueRaidModLoop ==
    IF ri < Len(raidModPermutations)
    THEN [pc |-> "raid", ci |-> ci, gi |-> gi, ri |-> ri + 1, i |-> 1]
    ELSE ContinueGeneralModLoop

Event(ev, at) == [ev |-> ev, at |-> at]

NoRet == [fn |-> "none", mod |-> 0, item |-> 0, value |-> FALSE]

----------------------------------------------------------------------------
(* getModAssignments, one action per loop step *)

\* lines 77-90: one iteration of the loop over mods
PartitionMod ==
    /\ pc = "partition"
    /\ m <= Len(mods)
    /\ LET mod == mods[m]
           branch == Classify(mod)
       IN  /\ generalMods' = IF branch = "general" THEN Append(generalMods, mod) ELSE generalMods
           /\ combatMods' = IF branch = "combat" THEN Append(combatMods, mod) ELSE combatMods
           /\ raidMods' = IF branch = "raid" THEN Append(raidMods, mod) ELSE raidMods
           /\ assignments' = IF branch = "item" THEN PushAssignment(assignments, items, mod)
                             ELSE assignments
           /\ last' = Event(branch, m)
    /\ m' = m + 1
    /\ UNCHANGED <<items, mods, pc, itemEnergies, generalModPermutations,
                   combatModPermutations, raidModPermutations, ci, gi, ri, i,
                   candidates, ret>>

\* lines 92-108: the energy seed, the three permutation lists and the entry
\* of combatModLoop (no list is ever empty)
SeedEnergies ==
    /\ pc = "partition"
    /\ m > Len(mods)
    /\ itemEnergies' = SeedItemEnergies(items, assignments)
    /\ generalModPermutations' = generatePermutationsOfFive(generalMods)
    /\ combatModPermutations' = generatePermutationsOfFive(combatMods)
    /\ raidModPermutations' = generatePermutationsOfFive(raidMods)
    /\ Goto([pc |-> "combat", ci |-> 1, gi |-> 0, ri |-> 0, i |-> 1])
    /\ last' = Event("seed", 0)
    /\ UNCHANGED <<items, mods, m, assignments, generalMods, combatMods, raidMods,
                   candidates, ret>>

Frame ==
    UNCHANGED <<items, mods, m, assignments, generalMods, combatMods, raidMods,
                itemEnergies, generalModPermutations, combatModPermutations,
                raidModPermutations, ret>>

\* lines 109-142: combatItemLoop moves on (a null mod, or a mod that fits)
CombatItemLoop ==
    /\ pc = "combat"
    /\ i <= Len(items)
    /\ PermAt(combatP, i) # NoMod =>
          CombatModFits(itemEnergies, items[i], PermAt(combatP, i))
    /\ i' = i + 1
    /\ last' = Event(IF PermAt(combatP, i) = NoMod THEN "combatNull" ELSE "combatFits", i)
    /\ UNCHANGED <<pc, ci, gi, ri, candidates>>
    /\ Frame

\* a variant of CombatPrune that skips the failing item (continue
\* combatItemLoop) instead of abandoning the permutation
CombatPruneSkipsItem ==
    /\ pc = "combat"
    /\ i <= Len(items)
    /\ PermAt(combatP, i) # NoMod
    /\ ~CombatModFits(itemEnergies, items[i], PermAt(combatP, i))
    /\ i' = i + 1
    /\ last' = Event("combatPrune", i)
    /\ UNCHANGED <<pc, ci, gi, ri, candidates>>
    /\ Frame

\* lines 131-141: continue combatModLoop
CombatPrune ==
    /\ pc = "combat"
    /\ i <= Len(items)
    /\ PermAt(combatP, i) # NoMod
    /\ ~CombatModFits(itemEnergies, items[i], PermAt(combatP, i))
    /\ Goto(ContinueCombatModLoop)
    /\ last' = Event("combatPrune", i)
    /\ UNCHANGED candidates
    /\ Frame

\* line 144: combatItemLoop ran to its end, generalModLoop starts
EnterGeneralModLoop ==
    /\ pc = "combat"
    /\ i > Len(items)
    /\ Goto([pc |-> "general", ci |-> ci, gi |-> 1, ri |-> 0, i |-> 1])
    /\ last' = Event("enterGeneral", 0)
    /\ UNCHANGED candidates
    /\ Frame

\* lines 145-174: generalItemLoop moves on
GeneralItemLoop ==
    /\ pc = "general"
    /\ i <= Len(items)
    /\ PermAt(generalP, i) # NoMod =>
          generalEnergyIsValid(itemEnergies, items[i], PermAt(generalP, i), PermAt(combatP, i))
    /\ i' = i + 1
    /\ last' = Event(IF PermAt(generalP, i) = NoMod THEN "generalNull" ELSE "generalFits", i)
    /\ UNCHANGED <<pc, ci, gi, ri, candidates>>
    /\ Frame

\* lines 171-173: continue generalModLoop
GeneralPrune ==
    /\ pc = "general"
    /\ i <= Len(items)
    /\ PermAt(generalP, i) # NoMod
    /\ ~generalEnergyIsValid(itemEnergies, items[i], PermAt(generalP, i), PermAt(combatP, i))
    /\ Goto(ContinueGeneralModLoop)
    /\ last' = Event("generalPrune", i)
    /\ UNCHANGED candidates
    /\ Frame

\* line 176: generalItemLoop ran to its end, raidModLoop starts
EnterRaidModLoop ==
    /\ pc = "general"
    /\ i > Len(items)
    /\ Goto([pc |-> "raid", ci |-> ci, gi |-> gi, ri |-> 1, i |-> 1])
    /\ last' = Event("enterRaid", 0)
    /\ UNCHANGED candidates
    /\ Frame

\* lines 177-222: raidItemLoop moves on
RaidItemLoop ==
    /\ pc = "raid"
    /\ i <= Len(items)
    /\ PermAt(raidP, i) # NoMod =>
          RaidModFits(itemEnergies, items[i], PermAt(raidP, i), PermAt(generalP, i),
                      PermAt(combatP, i))
    /\ i' = i + 1
    /\ last' = Event(IF PermAt(raidP, i) = NoMod THEN "raidNull" ELSE "raidFits", i)
    /\ UNCHANGED <<pc, ci, gi, ri, candidates>>
    /\ Frame

\* lines 211-221: continue raidModLoop
RaidPrune ==
    /\ pc = "raid"
    /\ i <= Len(items)
    /\ PermAt(raidP, i) # NoMod
    /\ ~RaidModFits(itemEnergies, items[i], PermAt(raidP, i), PermAt(generalP, i),
                    PermAt(combatP, i))
    /\ Goto(ContinueRaidModLoop)
    /\ last' = Event("raidPrune", i)
    /\ UNCHANGED candidates
    /\ Frame

\* a variant of ReachCandidate that writes the combat mods of the valid triple
\* into the mapping
ReachCandidateCommits ==
    /\ pc = "raid"
    /\ i > Len(items)
    /\ pc' = "candidate"
    /\ candidates' = candidates \cup {<<ci, gi, ri>>}
    /\ last' = Event("candidate", 0)
    /\ assignments' =
          [id \in DOMAIN assignments |->
              LET k == CHOOSE h \in DOMAIN items : items[h].id = id
              IN  IF PermAt(combatP, k) # NoMod
                  THEN Append(assignments[id], PermAt(combatP, k))
                  ELSE assignments[id]]
    /\ UNCHANGED <<ci, gi, ri, i>>
    /\ UNCHANGED <<items, mods, m, generalMods, combatMods, raidMods, itemEnergies,
                   generalModPermutations, combatModPermutations,
                   raidModPermutations, ret>>

\* line 224: raidItemLoop ran to its end ("calculate best mod assignment
\* here": nothing is computed or stored)
ReachCandidate ==
    /\ pc = "raid"
    /\ i > Len(items)
    /\ pc' = "candidate"
    /\ candidates' = candidates \cup {<<ci, gi, ri>>}
    /\ last' = Event("candidate", 0)
    /\ UNCHANGED <<ci, gi, ri, i>>
    /\ Frame

\* line 225: the end of raidModLoop's body
LeaveCandidate ==
    /\ pc = "candidate"
    /\ Goto(ContinueRaidModLoop)
    /\ last' = Event("next", 0)
    /\ UNCHANGED candidates
    /\ Frame

----------------------------------------------------------------------------
(* Calls of the exported predicates *)

CallDoEnergiesMatch ==
    /\ pc = "call"
    /\ \E a \in DOMAIN mods, b \in DOMAIN items :
          ret' = [fn |-> "doEnergiesMatch", mod |-> a, item |-> b,
                  value |-> doEnergiesMatch(mods[a], items[b])]
    /\ UNCHANGED <<items, mods, pc, m, assignments, generalMods, combatMods, raidMods,
                   itemEnergies, generalModPermutations, combatModPermutations,
                   raidModPermutations, ci, gi, ri, i, candidates, last>>

CallSomeModHasEnergyRequirement ==
    /\ pc = "call"
    /\ ret' = [fn |-> "someModHasEnergyRequirement", mod |-> 0, item |-> 0,
               value |-> someModHasEnergyRequirement(mods)]
    /\ UNCHANGED <<items, mods, pc, m, assignments, generalMods, combatMods, raidMods,
                   itemEnergies, generalModPermutations, combatModPermutations,
                   raidModPermutations, ci, gi, ri, i, candidates, last>>

----------------------------------------------------------------------------
(* Inputs *)

GeneralMod == Mod("general", "Solar", 1)
CombatMod  == Mod("dual", "Arc", 2)
RaidMod    == Mod("raid", "Arc", 1)
HelmetMod  == Mod("helmet", "Arc", 2)
UnknownMod == FreeMod("unknown")
AnyMod     == Mod("general", Any, 1)
FreeCombat == FreeMod("ember")
NegativeMod == Mod("general", Any, -1)

ModPool == {GeneralMod, CombatMod, RaidMod, HelmetMod, UnknownMod, FreeCombat}

ArcHelmet   == Item(0, "Helmet", TRUE, "Arc", 3, FALSE, {"combatstyle", "gardenofsalvation"})
SolarHelmet == Item(0, "Helmet", TRUE, "Solar", 1, FALSE, {})
SwapArms    == Item(0, "Gauntlets", TRUE, "Solar", 2, TRUE, {"combatstyle"})
NoEnergy    == Item(0, "Chest", FALSE, "undefined", 2, FALSE, {"combatstyle"})
AnyLegs     == Item(0, "Legs", TRUE, Any, 1, FALSE, {"gardenofsalvation"})
Spent       == Item(0, "ClassItem", TRUE, "Arc", 0, FALSE, {})

\* item ids are distinct: each item gets its position as id
WithIds(list) == [k \in DOMAIN list |-> [list[k] EXCEPT !.id = k]]

ItemFixtures ==
    {WithIds(<<ArcHelmet, SwapArms, NoEnergy, AnyLegs, Spent>>),
     WithIds(<<SolarHelmet, ArcHelmet, Spent, Spent, AnyLegs>>)}

\* lines 62-75: the state of getModAssignments before its first loop
Start ==
    /\ m = 1
    /\ assignments = [id \in ItemIds(items) |-> <<>>]
    /\ generalMods = <<>>
    /\ combatMods = <<>>
    /\ raidMods = <<>>
    /\ itemEnergies = <<>>
    /\ generalModPermutations = <<>>
    /\ combatModPermutations = <<>>
    /\ raidModPermutations = <<>>
    /\ ci = 0 /\ gi = 0 /\ ri = 0 /\ i = 0
    /\ candidates = {}
    /\ last = Event("start", 0)
    /\ ret = NoRet

Init ==
    /\ items \in ItemFixtures
    /\ mods \in SeqsUpTo(ModPool, MaxMods)
    /\ pc = "partition"
    /\ Start

Next ==
    \/ PartitionMod
    \/ SeedEnergies
    \/ CombatItemLoop
    \/ CombatPrune
    \/ EnterGeneralModLoop
    \/ GeneralItemLoop
    \/ GeneralPrune
    \/ EnterRaidModLoop
    \/ RaidItemLoop
    \/ RaidPrune
    \/ ReachCandidate
    \/ LeaveCandidate

Spec == Init /\ [][Next]_vars

\* calls of the exported predicates on inputs that include a mod without a
\* cost, a mod of type Any and an item whose own energy type is Any
CallMods == {GeneralMod, CombatMod, UnknownMod, AnyMod, FreeCombat}

InitCall ==
    /\ items \in ItemFixtures
    /\ mods \in SeqsUpTo(CallMods, MaxMods)
    /\ pc = "call"
    /\ Start

NextCall ==
    \/ CallDoEnergiesMatch
    \/ CallSomeModHasEnergyRequirement

SpecCall == InitCall /\ [][NextCall]_vars

\* getModAssignments on malformed input: four or six items, or a mod with a
\* negative cost
FourItems == WithIds(<<ArcHelmet, SwapArms, NoEnergy, AnyLegs>>)
SixItems  == WithIds(<<ArcHelmet, SwapArms, NoEnergy, AnyLegs, Spent, ArcHelmet>>)

Malformed ==
    \/ Len(items) # PermLen
    \/ \E k \in DOMAIN mods : mods[k].hasCost /\ mods[k].energyCost < 0

InitMalformed ==
    /\ items \in ItemFixtures \cup {FourItems, SixItems}
    /\ mods \in SeqsUpTo({GeneralMod, CombatMod, RaidMod, NegativeMod}, MaxMods)
    /\ Malformed
    /\ pc = "partition"
    /\ Start

SpecMalformed == InitMalformed /\ [][Next]_vars

----------------------------------------------------------------------------
(* Properties *)

\* Compatible(typeA, typeB) of the specification
Compatible(typeA, typeB) == typeA = typeB \/ typeA = Any \/ typeB = Any

\* the constraints of item index k on the mods c, g, r of the three
\* categories, checked from the inputs and the energy seed alone
SatisfiesAt(k, c, g, r) ==
    LET item == items[k]
        energy == itemEnergies[item.id]
        placed == {c, g, r} \ {NoMod}
        tagged == {c, r} \ {NoMod}
    IN  /\ energy.used + CostOf(c) + CostOf(g) + CostOf(r) <= energy.capacity
        /\ \A x \in placed : Compatible(energy.type, TypeOf(x))
        /\ Compatible(TypeOf(c), TypeOf(g))
        /\ Compatible(TypeOf(c), TypeOf(r))
        /\ Compatible(TypeOf(g), TypeOf(r))
        /\ \A x \in tagged :
              getModTypeTagByPlugCategoryHash(x.plugCategoryHash) \in item.compatibleModTags

Satisfies(C, G, R) ==
    \A k \in DOMAIN items : SatisfiesAt(k, PermAt(C, k), PermAt(G, k), PermAt(R, k))

\* C1: every (Combat, General, Raid) triple that reaches the candidate point
\* satisfies, at every item index, the capacity, the slot / mod and pairwise
\* type compatibility and the socket tag constraints.
SearchSoundness ==
    pc = "candidate" => Satisfies(combatP, generalP, raidP)

\* C2: when the search has ended, the triples that reached the candidate
\* point are exactly those of permC x permG x permR that satisfy the
\* constraints at every item index.
SearchCompleteness ==
    pc = "done" =>
        candidates =
            {t \in (DOMAIN combatModPermutations) \X (DOMAIN generalModPermutations)
                      \X (DOMAIN raidModPermutations) :
                Satisfies(combatModPermutations[t[1]], generalModPermutations[t[2]],
                          raidModPermutations[t[3]])}

\* the mod belongs to none of the three searched categories and item k is the
\* first item whose bucket category is the mod's plugCategoryHash
SlotSpecificFor(k, mod) ==
    /\ mod.plugCategoryHash # GeneralPlugCategoryHash
    /\ mod.plugCategoryHash \notin combatCompatiblePlugCategoryHashes
    /\ mod.plugCategoryHash \notin raidModPlugCategoryHashes
    /\ mod.plugCategoryHash = bucketsToCategories(items[k].bucket)
    /\ \A h \in 1..(k - 1) : mod.plugCategoryHash # bucketsToCategories(items[h].bucket)

SlotSpecificMods(k, list) ==
    LET Test(mod) == SlotSpecificFor(k, mod)
    IN  SelectSeq(list, Test)

AssignmentsKeysAndKinds ==
    /\ DOMAIN assignments = ItemIds(items)
    /\ \A k \in DOMAIN items : \A n \in DOMAIN assignments[items[k].id] :
          /\ Classify(assignments[items[k].id][n]) = "item"
          /\ assignments[items[k].id][n].plugCategoryHash \notin
                {GeneralPlugCategoryHash} \cup combatCompatiblePlugCategoryHashes
                    \cup raidModPlugCategoryHashes
          /\ assignments[items[k].id][n] \in Range(mods)
    /\ pc = "done" =>
          \A k \in DOMAIN items : assignments[items[k].id] = SlotSpecificMods(k, mods)

\* C3: the mapping has one key per item id, holds only slot-specific mods (in
\* input order in the returned mapping), and no step after the partition
\* loop changes it.
AssignmentsOnlySlotSpecific ==
    /\ []AssignmentsKeysAndKinds
    /\ [][(pc # "partition" \/ m > Len(mods)) => assignments' = assignments]_vars

AssignmentsOnlySlotSpecificWitness ==
    /\ pc = "done"
    /\ candidates # {}
    /\ combatMods # <<>>
    /\ \E id \in DOMAIN assignments : assignments[id] # <<>>

\* C4: in the energy seed and in the returned mapping, the cost of the mods
\* placed in an item never exceeds the item's capacity.
UsedWithinCapacity ==
    pc # "partition" =>
        \A k \in DOMAIN items :
            /\ itemEnergies[items[k].id].used <= itemEnergies[items[k].id].capacity
            /\ SumCost(assignments[items[k].id]) <= items[k].maxEnergy

IsGeneral(mod) == mod.plugCategoryHash = GeneralPlugCategoryHash

IsCombat(mod) ==
    ~IsGeneral(mod) /\ mod.plugCategoryHash \in combatCompatiblePlugCategoryHashes

IsRaid(mod) ==
    ~IsGeneral(mod) /\ ~IsCombat(mod) /\ mod.plugCategoryHash \in raidModPlugCategoryHashes

IsDropped(mod) ==
    /\ ~IsGeneral(mod) /\ ~IsCombat(mod) /\ ~IsRaid(mod)
    /\ \A k \in DOMAIN items : mod.plugCategoryHash # bucketsToCategories(items[k].bucket)

RECURSIVE TotalLen(_, _)
TotalLen(asg, ids) ==
    IF ids = {} THEN 0
    ELSE LET id == CHOOSE x \in ids : TRUE
         IN  Len(asg[id]) + TotalLen(asg, ids \ {id})

\* C5: after partitioning every mod is in exactly one place, chosen by the
\* first matching rule general, combat, raid, first matching item; a mod that
\* matches nothing is nowhere.
PartitionFirstMatch ==
    pc # "partition" =>
        /\ generalMods = SelectSeq(mods, IsGeneral)
        /\ combatMods = SelectSeq(mods, IsCombat)
        /\ raidMods = SelectSeq(mods, IsRaid)
        /\ \A k \in DOMAIN items : assignments[items[k].id] = SlotSpecificMods(k, mods)
        /\ Len(generalMods) + Len(combatMods) + Len(raidMods)
              + TotalLen(assignments, DOMAIN assignments)
              + Len(SelectSeq(mods, IsDropped)) = Len(mods)

PartitionFirstMatchWitness ==
    /\ pc = "done"
    /\ \E k \in DOMAIN mods : mods[k].plugCategoryHash = "dual"
    /\ \E k \in DOMAIN mods : IsDropped(mods[k])
    /\ \E a, b \in DOMAIN items :
          /\ a < b
          /\ items[a].bucket = items[b].bucket
          /\ assignments[items[a].id] # <<>>
          /\ assignments[items[b].id] = <<>>

\* C6: a permutation that survived the item loop of its level holds no
\* costed mod at the index of an item without energy.
NoCostedModOnItemWithoutEnergy ==
    \A k \in DOMAIN items :
        ~items[k].hasEnergy =>
            /\ pc \in {"general", "raid", "candidate"} => ~PermAt(combatP, k).hasCost
            /\ pc \in {"raid", "candidate"} => ~PermAt(generalP, k).hasCost
            /\ pc = "candidate" => ~PermAt(raidP, k).hasCost

\* C7: someModHasEnergyRequirement is true exactly when some mod has a cost
\* whose type is not Any.
SomeModIffElementalCost ==
    ret.fn = "someModHasEnergyRequirement" =>
        (ret.value <=> \E k \in DOMAIN mods : mods[k].hasCost /\ mods[k].energyType # Any)

\* C8: getModAssignments returns a mapping only for five items and mods
\* without a negative cost.
MalformedInputNeverReturns ==
    pc = "done" => ~Malformed

\* the slot-versus-mod type test of lines 126-128, on the type of the seed
SearchTypeTest(item, mod) ==
    LET type == SeedItemEnergies(items, assignments)[item.id].type
    IN  type = TypeOf(mod) \/ TypeOf(mod) = Any \/ type = Any

\* C10: for an item with energy, doEnergiesMatch agrees with the search's
\* slot-versus-mod type test.
DoEnergiesMatchAgreesWithSearch ==
    (ret.fn = "doEnergiesMatch" /\ items[ret.item].hasEnergy) =>
        (ret.value <=> SearchTypeTest(items[ret.item], mods[ret.mod]))

\* what the item loops accept at item index k of the running permutations
CombatPasses(k) ==
    PermAt(combatP, k) = NoMod \/ CombatModFits(itemEnergies, items[k], PermAt(combatP, k))

GeneralPasses(k) ==
    \/ PermAt(generalP, k) = NoMod
    \/ generalEnergyIsValid(itemEnergies, items[k], PermAt(generalP, k), PermAt(combatP, k))

RaidPasses(k) ==
    \/ PermAt(raidP, k) = NoMod
    \/ RaidModFits(itemEnergies, items[k], PermAt(raidP, k), PermAt(generalP, k),
                   PermAt(combatP, k))

\* every index below the running one passed, and every index of the
\* permutations of the enclosing loops passed
CheckedBelowPassed ==
    /\ pc = "combat" => \A k \in 1..(i - 1) : CombatPasses(k)
    /\ pc \in {"general", "raid", "candidate"} => \A k \in DOMAIN items : CombatPasses(k)
    /\ pc = "general" => \A k \in 1..(i - 1) : GeneralPasses(k)
    /\ pc \in {"raid", "candidate"} => \A k \in DOMAIN items : GeneralPasses(k)
    /\ pc = "raid" => \A k \in 1..(i - 1) : RaidPasses(k)
    /\ pc = "candidate" => \A k \in DOMAIN items : RaidPasses(k)

InItemLoop == pc \in {"combat", "general", "raid"} /\ i <= Len(items)

\* a failing index ends its permutation: the next step is at the first index
\* of the next permutation of that level or, after its last permutation, of
\* the next permutation of an enclosing level (or the return)
FailureEndsPermutation ==
    /\ (InItemLoop /\ pc = "combat" /\ ~CombatPasses(i)) =>
          \/ pc' = "done"
          \/ pc' = "combat" /\ ci' = ci + 1 /\ i' = 1
    /\ (InItemLoop /\ pc = "general" /\ ~GeneralPasses(i)) =>
          IF gi < Len(generalModPermutations)
          THEN pc' = "general" /\ ci' = ci /\ gi' = gi + 1 /\ i' = 1
          ELSE pc' = "done" \/ (pc' = "combat" /\ ci' = ci + 1 /\ i' = 1)
    /\ (InItemLoop /\ pc = "raid" /\ ~RaidPasses(i)) =>
          IF ri < Len(raidModPermutations)
          THEN pc' = "raid" /\ ci' = ci /\ gi' = gi /\ ri' = ri + 1 /\ i' = 1
          ELSE \/ pc' = "done"
               \/ pc' = "combat" /\ ci' = ci + 1 /\ i' = 1
               \/ pc' = "general" /\ ci' = ci /\ gi' = gi + 1 /\ i' = 1

\* within one permutation the indices are visited one by one, upwards from
\* the first
IndicesInOrder ==
    /\ (pc' \in {"combat", "general", "raid"} /\ <<pc, ci, gi, ri>>' # <<pc, ci, gi, ri>>)
          => i' = 1
    /\ (InItemLoop /\ <<pc, ci, gi, ri>>' = <<pc, ci, gi, ri>>) => i' = i + 1

\* C9: indices are checked in increasing order, the first failing index ends
\* the permutation, and a permutation is checked only beneath permutations
\* of the enclosing loops that passed all their indices.
PruningOrder ==
    /\ []CheckedBelowPassed
    /\ [][FailureEndsPermutation /\ IndicesInOrder]_vars

PruningOrderWitness ==
    /\ last.ev = "raidPrune"
    /\ last.at >= 2
    /\ ci > 1
    /\ gi > 1
    /\ \E k \in DOMAIN items : PermAt(combatP, k) # NoMod
    /\ \E k \in DOMAIN items : PermAt(generalP, k) # NoMod

====
